---------------------------- MODULE Spec2Model ----------------------------
(***************************************************************************)
(* unisim: a Uniswap v3 pool wrapper (src/unisim/pool.py), its numeric     *)
(* helpers (src/unisim/utils.py) and the EVM ledger it drives.             *)
(*                                                                         *)
(* The ledger (PoolToken, NonfungiblePositionManager, SwapRouter) is not   *)
(* Python code of the repository; it is modelled from the interface the    *)
(* specification gives it (section 6).  Everything else is translated      *)
(* from the Python source.                                                 *)
(*                                                                         *)
(* Numbers.  Python floats are carried as integers counting 1/Den of a     *)
(* human unit and are rounded to MantissaBits significant bits, the way    *)
(* an IEEE double is rounded to 53.  Wad stands for the 10^18 of the       *)
(* source, scaled down so that every value stays in TLC's integer range.   *)
(***************************************************************************)
EXTENDS Integers, Sequences, FiniteSets, TLC

VARIABLES
    evm_tokens,     \* deployed PoolToken contracts: address -> storage
    evm_pools,      \* pools created through the position manager
    evm_positions,  \* NFT positions, token id = index
    pool,           \* the Pool object (NoPool before construction)
    ret,            \* what the last call did: [op, err, out]
    lk,             \* last fee/spacing lookup
    dex,            \* the DEX object's __dict__, in insertion order
    collector,      \* the attributes of class DataCollector itself
    eng             \* the simulation engine (NoEngine when there is none)

\* the variables beside the ledger, the Pool object and the last call
others == <<lk, dex, collector, eng>>

vars == <<evm_tokens, evm_pools, evm_positions, pool, ret, others>>

-----------------------------------------------------------------------------
(* Bounds of the model *)

\* bytes in an address (20 in the EVM)
AddrLen == 2
\* deployed token contracts
MaxTokens == 4
\* wei per human unit (10^18 in the source)
Wad == 2
\* float quanta per wei
Sub == 2
\* significant bits of a float (53 in a double)
MantissaBits == 2
\* most wei of one token ever minted
MaxSupply == 3
\* largest human amount (in whole units) a caller passes
MaxAmount == 2
\* open positions
MaxPositions == 2
\* largest argument tried in a fee/spacing lookup besides the listed ones
MaxLookup == 70
\* most wei of one token swapped in within a step before swapping stops
MaxVolume == 3
\* token contracts deployed through one DEX
MaxDexTokens == 8
\* the largest step number data is collected for
MaxSteps == 2
\* the most rows the collector lists grow to
MaxRecords == 2

-----------------------------------------------------------------------------
(* Generic helpers *)

Min(a, b) == IF a < b THEN a ELSE b

\* list.index(x): the first place of x in s
Index(s, x) == CHOOSE i \in 1..Len(s) : s[i] = x /\ \A j \in 1..(i - 1) : s[j] # x

SeqRange(s) == {s[i] : i \in 1..Len(s)}

RECURSIVE Pow2(_)
Pow2(k) == IF k <= 0 THEN 1 ELSE 2 * Pow2(k - 1)

\* number of bits of n (0 for 0)
RECURSIVE BitLen(_)
BitLen(n) == IF n <= 0 THEN 0 ELSE 1 + BitLen(n \div 2)

\* the float nearest to the non-negative number n (ties to the even mantissa)
RoundFloat(n) ==
    LET ulp == Pow2(BitLen(n) - MantissaBits)
        lo  == (n \div ulp) * ulp
        rem == n - lo
    IN  IF 2 * rem < ulp THEN lo
        ELSE IF 2 * rem > ulp THEN lo + ulp
        ELSE IF (lo \div ulp) % 2 = 0 THEN lo ELSE lo + ulp

\* floats are quanta of 1/Den human unit
Den == Wad * Sub

IsFloat(n) == RoundFloat(n) = n

-----------------------------------------------------------------------------
(* src/unisim/utils.py *)

\* int(value * 1e18): the product is a float, int() drops its fraction
as_18(value) == RoundFloat(value * Wad) \div Den

\* value / 1e18, a float
from_18(value) == RoundFloat((value * Den) \div Wad)

\* bytes.__lt__ on two addresses of the same length
RECURSIVE BytesLess(_, _)
BytesLess(a, b) ==
    IF Len(a) = 0 \/ Len(b) = 0 THEN Len(a) < Len(b)
    ELSE IF Head(a) # Head(b) THEN Head(a) < Head(b)
    ELSE BytesLess(Tail(a), Tail(b))

are_sorted_tokens(t0_address, t1_address) == BytesLess(t0_address, t1_address)

MIN_TICK == -887272

MAX_TICK == 887272

is_tick_in_range(tick) == tick >= MIN_TICK /\ tick <= MAX_TICK

-----------------------------------------------------------------------------
(* src/unisim/pool.py: fee schedule *)

FEE_RANGE == <<100, 500, 3000, 10000>>

FEE_TICK_SPACING_dup == <<1, 10, 10, 200>>

FEE_TICK_SPACING == <<1, 10, 60, 200>>

Ok(v) == [err |-> "none", val |-> v]

Raise(msg) == [err |-> msg, val |-> 0]

get_spacing_for_fee(fee) ==
    IF fee \in SeqRange(FEE_RANGE)
    THEN Ok(FEE_TICK_SPACING[Index(FEE_RANGE, fee)])
    ELSE Raise("not a valid fee")

get_fee_for_spacing(spacing) ==
    IF spacing \in SeqRange(FEE_TICK_SPACING)
    THEN Ok(FEE_RANGE[Index(FEE_TICK_SPACING, spacing)])
    ELSE Raise("not a valid tick spacing")


-----------------------------------------------------------------------------
(* Accounts and inputs *)

Agents == {"bob", "lp"}

\* the account a whale is created for
WhaleAccount == "whale"

Deployer == "deployer"

\* abis.UNISWAP_NFPOSTION_MANAGER and abis.UNISWAP_SWAP_ROUTER
NftManager == "nft"

SwapRouter == "router"

\* the account of the pool contract, holding the reserves
PoolAccount == "pool"

Holders == Agents \cup {Deployer, PoolAccount, WhaleAccount}

Owners == Agents \cup {Deployer, WhaleAccount}

Spenders == {NftManager, SwapRouter}

\* the values an address byte takes here
AddrBytes == {0, 1}

Addr == [1..AddrLen -> AddrBytes]

\* the float n.0
Human(n) == n * Den

\* pool.Token(symbol, start_price)
Token(symbol, start_price) == [symbol |-> symbol, start_price |-> start_price]

NoPool == [name |-> "none"]

NoAddr == <<>>

NoOut == <<>>

\* the state the operations act on
State(t, p, n, o) ==
    [evm_tokens |-> t, evm_pools |-> p, evm_positions |-> n, pool |-> o]

EmptyState == State(<<>>, {}, <<>>, NoPool)

Current == State(evm_tokens, evm_pools, evm_positions, pool)

\* an operation's result: the state it leaves, the error it raised, its output
Done(st, out) == [st |-> st, err |-> "none", out |-> out]

Fail(st, msg) == [st |-> st, err |-> msg, out |-> NoOut]

-----------------------------------------------------------------------------
(* The ledger: PoolToken (an ERC20 with mint, burn and update_symbol) *)

NewToken(symbol) ==
    [symbol    |-> symbol,
     balanceOf |-> [h \in Holders |-> 0],
     allowance |-> [ow \in Owners |-> [sp \in Spenders |-> 0]]]

TokenDeploy(st, addr, symbol) ==
    [st EXCEPT !.evm_tokens = (addr :> NewToken(symbol)) @@ st.evm_tokens]

TokenUpdateSymbol(st, addr, symbol) ==
    [st EXCEPT !.evm_tokens[addr].symbol = symbol]

BalanceOf(st, addr, who) == st.evm_tokens[addr].balanceOf[who]

Allowance(st, addr, owner, spender) == st.evm_tokens[addr].allowance[owner][spender]

TotalSupply(st, addr) ==
    LET b == st.evm_tokens[addr].balanceOf
        RECURSIVE Sum(_)
        Sum(S) == IF S = {} THEN 0
                  ELSE LET h == CHOOSE x \in S : TRUE IN b[h] + Sum(S \ {h})
    IN  Sum(Holders)

TokenMint(st, addr, to, amount) ==
    Done([st EXCEPT !.evm_tokens[addr].balanceOf[to] = @ + amount], NoOut)

TokenBurn(st, addr, from, amount) ==
    IF BalanceOf(st, addr, from) < amount
    THEN Fail(st, "revert")
    ELSE Done([st EXCEPT !.evm_tokens[addr].balanceOf[from] = @ - amount], NoOut)

TokenApprove(st, addr, owner, spender, amount) ==
    Done([st EXCEPT !.evm_tokens[addr].allowance[owner][spender] = amount], NoOut)

\* transferFrom by `spender`: needs the balance and the allowance
CanTransferFrom(st, addr, owner, spender, amount) ==
    /\ BalanceOf(st, addr, owner) >= amount
    /\ Allowance(st, addr, owner, spender) >= amount

TokenTransferFrom(st, addr, owner, spender, to, amount) ==
    [st EXCEPT !.evm_tokens[addr].balanceOf[owner] = @ - amount,
               !.evm_tokens[addr].balanceOf[to] = @ + amount,
               !.evm_tokens[addr].allowance[owner][spender] = @ - amount]

\* a transfer by the holder itself
TokenTransfer(st, addr, from, to, amount) ==
    [st EXCEPT !.evm_tokens[addr].balanceOf[from] = @ - amount,
               !.evm_tokens[addr].balanceOf[to] = @ + amount]

-----------------------------------------------------------------------------
(* The ledger: pools of the position manager *)

PoolKey(token0, token1, fee) == [token0 |-> token0, token1 |-> token1, fee |-> fee]

\* createAndInitializePoolIfNecessary: registers the pool under its key
CreatePool(st, token0, token1, fee, sqrtp) ==
    Done([st EXCEPT !.evm_pools = @ \cup {PoolKey(token0, token1, fee)}],
         PoolKey(token0, token1, fee))

-----------------------------------------------------------------------------
(* src/unisim/pool.py: Pool.__init__ *)

\* Token.initial_price
initial_price(token) == as_18(token.start_price)

\* the price handed to price_to_sqrtp, kept as the ratio it is computed from
price_to_sqrtp(num, den) == [num |-> num, den |-> den]

PoolName(token_a, token_b, fee) ==
    token_a.symbol \o "_" \o token_b.symbol \o "_" \o ToString(fee)

DataCollector(token0_symbol, token1_symbol) ==
    [token0_symbol |-> token0_symbol, token1_symbol |-> token1_symbol,
     t0_current_volume |-> 0, t1_current_volume |-> 0]

\* the two deployed contracts put in address order, symbols re-assigned
SortTokens_noswap(st, token_a, token_b, addr_a, addr_b) ==
    [st |-> st, token0 |-> addr_a, token1 |-> addr_b]

SortTokens_norelabel(st, token_a, token_b, addr_a, addr_b) ==
    IF BytesLess(addr_a, addr_b)
    THEN [st |-> st, token0 |-> addr_a, token1 |-> addr_b]
    ELSE [st |-> st, token0 |-> addr_b, token1 |-> addr_a]

SortTokens(st, token_a, token_b, addr_a, addr_b) ==
    IF BytesLess(addr_a, addr_b)
    THEN [st |-> st, token0 |-> addr_a, token1 |-> addr_b]
    ELSE [st     |-> TokenUpdateSymbol(
                        TokenUpdateSymbol(st, addr_b, token_a.symbol),
                        addr_a, token_b.symbol),
          token0 |-> addr_b,
          token1 |-> addr_a]

\* Pool.__init__ after its two assertions
Pool_init_body(st, token_a, token_b, fee, addr_a, addr_b) ==
    LET d1 == TokenDeploy(st, addr_a, token_a.symbol)
        d2 == TokenDeploy(d1, addr_b, token_b.symbol)
        so == SortTokens(d2, token_a, token_b, addr_a, addr_b)
    IN  IF initial_price(token_a) = 0
        THEN Fail(so.st, "ZeroDivisionError")
        ELSE LET sqrtp == price_to_sqrtp(initial_price(token_b), initial_price(token_a))
                 cr    == CreatePool(so.st, so.token0, so.token1, fee, sqrtp)
             IN  IF cr.err # "none" THEN Fail(cr.st, cr.err)
                 ELSE Done([cr.st EXCEPT !.pool =
                              [name   |-> PoolName(token_a, token_b, fee),
                               step   |-> 0,
                               fee    |-> fee,
                               token0 |-> so.token0,
                               token1 |-> so.token1,
                               pool_contract |-> cr.out,
                               data   |-> DataCollector(token_a.symbol, token_b.symbol)]],
                           NoOut)

Pool_init_unchecked(st, token_a, token_b, fee, addr_a, addr_b) ==
    Pool_init_body(st, token_a, token_b, fee, addr_a, addr_b)

\* Pool(_evm, _token_a, _token_b, _fee, ...); addr_a and addr_b are the
\* addresses the two deployments get
Pool_init(st, token_a, token_b, fee, addr_a, addr_b) ==
    IF fee \notin SeqRange(FEE_RANGE)
    THEN Fail(st, "Not a valid pool fee")
    ELSE IF token_b.start_price # Human(1)
    THEN Fail(st, "token b should always have a starting price of 1")
    ELSE Pool_init_body(st, token_a, token_b, fee, addr_a, addr_b)

-----------------------------------------------------------------------------
(* src/unisim/utils.py: ticks *)

\* the prices callers pass as position bounds, by their literal
PriceInputs ==
    {"0.98", "0.985", "0.99", "1.0", "1.01", "1.02", "1.03", "1e-19", "1e40"}

\* as_18(price) = 0: the price is below one wei
PriceIsBelowWei(price) == price = "1e-19"

\* price_to_tick(1e18 / as_18(price)) = floor(log(1e18 / as_18(price), 1.0001)),
\* tabulated for PriceInputs
price_to_tick(price) ==
    CASE price = "0.98" -> 202
      [] price = "0.985" -> 151
      [] price = "0.99" -> 100
      [] price = "1.0"  -> 0
      [] price = "1.01" -> -100
      [] price = "1.02" -> -199
      [] price = "1.03" -> -296
      [] price = "1e40" -> -921081
      [] OTHER          -> 0

\* math.floor(tick / spacing) * spacing
price_to_tick_with_spacing(price, spacing) ==
    (price_to_tick(price) \div spacing) * spacing

-----------------------------------------------------------------------------
(* The ledger: NonfungiblePositionManager and SwapRouter *)

Position(owner, key, tl, tu, liq) ==
    [owner |-> owner, key |-> key, tick_lower |-> tl, tick_upper |-> tu,
     liquidity |-> liq, owed0 |-> 0, owed1 |-> 0]

\* the sum of one field over all positions
RECURSIVE SumField(_, _)
SumField(s, f) == IF Len(s) = 0 THEN 0 ELSE Head(s)[f] + SumField(Tail(s), f)

TotalLiquidity(st) == SumField(st.evm_positions, "liquidity")

TotalOwed0(st) == SumField(st.evm_positions, "owed0")

TotalOwed1(st) == SumField(st.evm_positions, "owed1")

\* the liquidity the ledger credits for the amounts it takes
LiquidityForAmounts(used0, used1) == used0 + used1

\* the amounts the ledger may take out of the offered maxima: never more than
\* offered, one side in full, and enough to make some liquidity
UsedAmounts(amount0, amount1) ==
    {u \in (0..amount0) \X (0..amount1) :
        /\ u[1] = amount0 \/ u[2] = amount1
        /\ LiquidityForAmounts(u[1], u[2]) > 0}

\* the owner pays used0 and used1 into the pool through the position manager
CanPay(st, key, owner, used0, used1) ==
    /\ CanTransferFrom(st, key.token0, owner, NftManager, used0)
    /\ CanTransferFrom(st, key.token1, owner, NftManager, used1)

Pay(st, key, owner, used0, used1) ==
    TokenTransferFrom(
        TokenTransferFrom(st, key.token0, owner, NftManager, PoolAccount, used0),
        key.token1, owner, NftManager, PoolAccount, used1)

\* positions(token_id)
HasPosition(st, token_id) == token_id \in 1..Len(st.evm_positions)

\* mint(params): open a position; out = <<token_id, liquidity, amount0, amount1>>
NftMint(st, key, tl, tu, amount0, amount1, owner) ==
    IF \/ key \notin st.evm_pools
       \/ ~(tl < tu)
       \/ ~is_tick_in_range(tl) \/ ~is_tick_in_range(tu)
       \/ tl % get_spacing_for_fee(key.fee).val # 0
       \/ tu % get_spacing_for_fee(key.fee).val # 0
       \/ UsedAmounts(amount0, amount1) = {}
    THEN {Fail(st, "revert")}
    ELSE {IF CanPay(st, key, owner, u[1], u[2])
          THEN LET liq  == LiquidityForAmounts(u[1], u[2])
                   paid == Pay(st, key, owner, u[1], u[2])
               IN  Done([paid EXCEPT !.evm_positions =
                            Append(@, Position(owner, key, tl, tu, liq))],
                        <<Len(st.evm_positions) + 1, liq, u[1], u[2]>>)
          ELSE Fail(st, "revert")
          : u \in UsedAmounts(amount0, amount1)}

\* increaseLiquidity(params): out = <<liquidity, amount0, amount1>>
NftIncreaseLiquidity(st, token_id, amount0, amount1, caller) ==
    IF \/ ~HasPosition(st, token_id)
       \/ UsedAmounts(amount0, amount1) = {}
    THEN {Fail(st, "revert")}
    ELSE LET pos == st.evm_positions[token_id]
         IN  {IF pos.owner = caller /\ CanPay(st, pos.key, caller, u[1], u[2])
              THEN LET liq  == LiquidityForAmounts(u[1], u[2])
                       paid == Pay(st, pos.key, caller, u[1], u[2])
                   IN  Done([paid EXCEPT !.evm_positions[token_id].liquidity = @ + liq],
                            <<liq, u[1], u[2]>>)
              ELSE Fail(st, "revert")
              : u \in UsedAmounts(amount0, amount1)}

\* the pool's holdings not yet owed to a position
Free0(st, key) == BalanceOf(st, key.token0, PoolAccount) - TotalOwed0(st)

Free1(st, key) == BalanceOf(st, key.token1, PoolAccount) - TotalOwed1(st)

\* decreaseLiquidity(params): the share of the liquidity taken out becomes owed.
\* The interface does not say what a decrease by nothing does: the ledger may
\* reject it or apply it as a decrease by 0.
NftDecreaseLiquidity(st, token_id, liquidity, caller) ==
    IF ~HasPosition(st, token_id) THEN {Fail(st, "revert")}
    ELSE LET pos == st.evm_positions[token_id]
         IN  IF \/ pos.owner # caller
                \/ liquidity < 0
                \/ liquidity > pos.liquidity
             THEN {Fail(st, "revert")}
             ELSE LET total == TotalLiquidity(st)
                      o0 == IF total = 0 THEN 0
                            ELSE (Free0(st, pos.key) * liquidity) \div total
                      o1 == IF total = 0 THEN 0
                            ELSE (Free1(st, pos.key) * liquidity) \div total
                      ok == Done([st EXCEPT
                                    !.evm_positions[token_id].liquidity = @ - liquidity,
                                    !.evm_positions[token_id].owed0 = @ + o0,
                                    !.evm_positions[token_id].owed1 = @ + o1],
                                 <<o0, o1>>)
                  IN  IF liquidity = 0 THEN {ok, Fail(st, "revert")} ELSE {ok}

\* collect(params): pay out what is owed, up to the maxima asked for
NftCollect(st, token_id, recipient, max0, max1, caller) ==
    IF ~HasPosition(st, token_id) THEN Fail(st, "revert")
    ELSE LET pos == st.evm_positions[token_id]
             c0  == Min(pos.owed0, max0)
             c1  == Min(pos.owed1, max1)
         IN  IF pos.owner # caller THEN Fail(st, "revert")
             ELSE LET t0 == TokenTransfer(st, pos.key.token0, PoolAccount, recipient, c0)
                      t1 == TokenTransfer(t0, pos.key.token1, PoolAccount, recipient, c1)
                  IN  Done([t1 EXCEPT !.evm_positions[token_id].owed0 = @ - c0,
                                      !.evm_positions[token_id].owed1 = @ - c1],
                           <<c0, c1>>)

\* exactInputSingle(params): the caller pays amount_in of token_in and the
\* recipient gets some amount of token_out out of the pool's free holdings
RouterExactInputSingle(st, token_in, token_out, fee, recipient, amount_in, caller) ==
    LET key  == IF BytesLess(token_in, token_out)
                THEN PoolKey(token_in, token_out, fee)
                ELSE PoolKey(token_out, token_in, fee)
        free == IF token_out = key.token0 THEN Free0(st, key) ELSE Free1(st, key)
    IN  IF \/ key \notin st.evm_pools
           \/ amount_in <= 0
           \/ TotalLiquidity(st) = 0
           \/ ~CanTransferFrom(st, token_in, caller, SwapRouter, amount_in)
        THEN {Fail(st, "revert")}
        ELSE {LET paid == TokenTransferFrom(st, token_in, caller, SwapRouter,
                                            PoolAccount, amount_in)
              IN  Done(TokenTransfer(paid, token_out, PoolAccount, recipient, out), out)
              : out \in 0..free}

-----------------------------------------------------------------------------
(* src/unisim/pool.py: Pool operations.  Each gives the set of results the   *)
(* call can have: one, unless the ledger has a choice.                       *)

\* float(n) of an integer n
IntToFloat(n) == RoundFloat(n * Den)

\* x * y on floats
FloatMul(x, y) == RoundFloat((x * y) \div Den)

\* int(x) of a non-negative float
FloatToInt(x) == x \div Den

pair_balance(st, owner) ==
    <<from_18(BalanceOf(st, st.pool.token0, owner)),
      from_18(BalanceOf(st, st.pool.token1, owner))>>

reserves(st) == pair_balance(st, PoolAccount)

mint_tokens(st, amt_t0, amt_t1, agent) ==
    LET at0 == as_18(amt_t0)
        at1 == as_18(amt_t1)
        m0  == TokenMint(st, st.pool.token0, agent, at0)
        m1  == TokenMint(m0.st, st.pool.token1, agent, at1)
    IN  {Done(m1.st, NoOut)}

burn_tokens_bothsides(st, amt_t0, amt_t1, agent) ==
    LET at0  == as_18(amt_t0)
        at1  == as_18(amt_t1)
        bal0 == BalanceOf(st, st.pool.token0, agent)
        bal1 == BalanceOf(st, st.pool.token1, agent)
    IN  IF at0 > 0 /\ bal0 >= at0 /\ at1 > 0 /\ bal1 >= at1
        THEN {Done(TokenBurn(TokenBurn(st, st.pool.token0, agent, at0).st,
                             st.pool.token1, agent, at1).st, NoOut)}
        ELSE {Done(st, NoOut)}

burn_tokens(st, amt_t0, amt_t1, agent) ==
    LET at0  == as_18(amt_t0)
        at1  == as_18(amt_t1)
        bal0 == BalanceOf(st, st.pool.token0, agent)
        bal1 == BalanceOf(st, st.pool.token1, agent)
        b0   == IF at0 > 0 /\ bal0 >= at0
                THEN TokenBurn(st, st.pool.token0, agent, at0)
                ELSE Done(st, NoOut)
        b1   == IF at1 > 0 /\ bal1 >= at1
                THEN TokenBurn(b0.st, st.pool.token1, agent, at1)
                ELSE Done(b0.st, NoOut)
    IN  IF b0.err # "none" THEN {Fail(b0.st, b0.err)}
        ELSE IF b1.err # "none" THEN {Fail(b1.st, b1.err)}
        ELSE {Done(b1.st, NoOut)}

mint_position_result_swapped(out) == <<out[4], out[3], out[1]>>

\* return (a0, a1, token_id) of what the ledger's mint gave
mint_position_result(out) == <<out[3], out[4], out[1]>>

sort_ticks_asgiven(lowtick, hightick) == <<lowtick, hightick>>

\* if lowtick > hightick: lowtick, hightick = hightick, lowtick
sort_ticks(lowtick, hightick) ==
    IF lowtick > hightick THEN <<hightick, lowtick>> ELSE <<lowtick, hightick>>

\* mint_position after its two assertions
mint_position_body(st, token0_amount, token1_amount, low_price, high_price, agent) ==
    LET t0amt   == as_18(token0_amount)
        t1amt   == as_18(token1_amount)
        spacing == get_spacing_for_fee(st.pool.fee)
    IN  IF spacing.err # "none" THEN {Fail(st, spacing.err)}
        ELSE IF PriceIsBelowWei(low_price) \/ PriceIsBelowWei(high_price)
        THEN {Fail(st, "ZeroDivisionError")}
        ELSE
        LET lt0 == price_to_tick_with_spacing(low_price, spacing.val)
            ht0 == price_to_tick_with_spacing(high_price, spacing.val)
            lowtick  == sort_ticks(lt0, ht0)[1]
            hightick == sort_ticks(lt0, ht0)[2]
            ap0 == TokenApprove(st, st.pool.token0, agent, NftManager, t0amt)
            ap1 == TokenApprove(ap0.st, st.pool.token1, agent, NftManager, t1amt)
        IN  {IF r.err # "none" THEN Fail(r.st, r.err)
             ELSE Done(r.st, mint_position_result(r.out))
             : r \in NftMint(ap1.st, PoolKey(st.pool.token0, st.pool.token1, st.pool.fee),
                             lowtick, hightick, t0amt, t1amt, agent)}

mint_position_checks0(st, token0_amount, token1_amount, low_price, high_price, agent) ==
    LET bal == pair_balance(st, agent)
    IN  IF ~(bal[1] >= token0_amount)
        THEN {Fail(st, "insufficient balance")}
        ELSE mint_position_body(st, token0_amount, token1_amount,
                                low_price, high_price, agent)

mint_position(st, token0_amount, token1_amount, low_price, high_price, agent) ==
    LET bal == pair_balance(st, agent)
    IN  IF ~(bal[1] >= token0_amount /\ bal[2] >= token1_amount)
        THEN {Fail(st, "insufficient balance")}
        ELSE IF ~are_sorted_tokens(st.pool.token0, st.pool.token1)
        THEN {Fail(st, "token pair are not sorted")}
        ELSE mint_position_body(st, token0_amount, token1_amount,
                                low_price, high_price, agent)

\* get_position(token_id): <<fee, tick_lower, tick_upper, liquidity>>
get_position(st, token_id) ==
    LET pos == st.evm_positions[token_id]
    IN  <<pos.key.fee, pos.tick_lower, pos.tick_upper, pos.liquidity>>

\* increase_liquidity from the approvals on, for the position it names
increase_liquidity_body(st, token_id, amt0, amt1, agent) ==
    LET ap0 == TokenApprove(st, st.pool.token0, agent, NftManager, amt0)
        ap1 == TokenApprove(ap0.st, st.pool.token1, agent, NftManager, amt1)
    IN  {IF r.err # "none" THEN Fail(r.st, r.err) ELSE Done(r.st, r.out)
         : r \in NftIncreaseLiquidity(ap1.st, token_id, amt0, amt1, agent)}

increase_liquidity_first(st, token_id, amount0, amount1, agent) ==
    increase_liquidity_body(st, 1, as_18(amount0), as_18(amount1), agent)

increase_liquidity(st, token_id, amount0, amount1, agent) ==
    increase_liquidity_body(st, token_id, as_18(amount0), as_18(amount1), agent)

\* int(liq * percentage)
liquidity_to_remove(liq, percentage) ==
    FloatToInt(FloatMul(IntToFloat(liq), percentage))

\* remove_liquidity after its assertion
remove_liquidity_body(st, token_id, percentage, agent) ==
    IF ~HasPosition(st, token_id) THEN {Fail(st, "revert")}
    ELSE LET liq == st.evm_positions[token_id].liquidity
         IN  {IF dec.err # "none" THEN Fail(dec.st, dec.err)
              ELSE LET pos == dec.st.evm_positions[token_id]
                       col == NftCollect(dec.st, token_id, agent,
                                         pos.owed0, pos.owed1, agent)
                   IN  IF col.err # "none" THEN Fail(col.st, col.err)
                       ELSE Done(col.st, col.out)
              : dec \in NftDecreaseLiquidity(st, token_id,
                            liquidity_to_remove(liq, percentage), agent)}

remove_liquidity_unchecked(st, token_id, percentage, agent) ==
    IF ~(percentage <= Human(1)) THEN {Fail(st, "invalid percentage")}
    ELSE remove_liquidity_body(st, token_id, percentage, agent)

remove_liquidity(st, token_id, percentage, agent) ==
    IF ~(percentage > 0 /\ percentage <= Human(1))
    THEN {Fail(st, "invalid percentage")}
    ELSE remove_liquidity_body(st, token_id, percentage, agent)

\* DataCollector.add_volume
add_volume(st, t0, t1) ==
    [st EXCEPT !.pool.data.t0_current_volume = @ + t0,
               !.pool.data.t1_current_volume = @ + t1]

\* swap_0_for_1 after its assertion
swap_0_for_1_body(st, amount, agent) ==
    LET amount_in == as_18(amount)
        ap == TokenApprove(st, st.pool.token0, agent, SwapRouter, amount_in)
    IN  {IF r.err # "none" THEN Fail(r.st, r.err)
         ELSE Done(add_volume(r.st, amount_in, r.out), <<amount_in, r.out>>)
         : r \in RouterExactInputSingle(ap.st, st.pool.token0, st.pool.token1,
                                        st.pool.fee, agent, amount_in, agent)}

swap_0_for_1(st, amount, agent) ==
    IF ~(pair_balance(st, agent)[1] >= amount)
    THEN {Fail(st, "insufficient balance!")}
    ELSE swap_0_for_1_body(st, amount, agent)

\* swap_1_for_0 after its assertion
swap_1_for_0_body(st, amount, agent) ==
    LET amount_in == as_18(amount)
        ap == TokenApprove(st, st.pool.token1, agent, SwapRouter, amount_in)
    IN  {IF r.err # "none" THEN Fail(r.st, r.err)
         ELSE Done(add_volume(r.st, r.out, amount_in), <<amount_in, r.out>>)
         : r \in RouterExactInputSingle(ap.st, st.pool.token1, st.pool.token0,
                                        st.pool.fee, agent, amount_in, agent)}

swap_1_for_0_wrongside(st, amount, agent) ==
    IF ~(pair_balance(st, agent)[1] >= amount)
    THEN {Fail(st, "insufficient balance!")}
    ELSE swap_1_for_0_body(st, amount, agent)

swap_1_for_0(st, amount, agent) ==
    IF ~(pair_balance(st, agent)[2] >= amount)
    THEN {Fail(st, "insufficient balance!")}
    ELSE swap_1_for_0_body(st, amount, agent)

-----------------------------------------------------------------------------
(* src/unisim/pool.py: DataCollector and Pool.collect_data *)

\* the attributes the class statement of DataCollector binds on the class:
\* the eight lists have no annotation, so the dataclass makes no field of
\* them and no instance gets a list of its own
DataCollector_class ==
    [step |-> <<>>, tick |-> <<>>, t0_price |-> <<>>, t1_price |-> <<>>,
     t0_volume |-> <<>>, t1_volume |-> <<>>, t0_reserves |-> <<>>, t1_reserves |-> <<>>]

\* self.<name>: the instance's own attribute, else the attribute of the class
GetAttr(data, cls, name) ==
    IF name \in DOMAIN data THEN data[name] ELSE cls[name]

\* self.<name>.append(v): the list found by the lookup is changed in place
list_append(o, name, v) ==
    IF name \in DOMAIN o.data
    THEN [o EXCEPT !.data[name] = Append(@, v)]
    ELSE [o EXCEPT !.cls[name] = Append(@, v)]

\* DataCollector.collect_volume; o is the instance and the class
collect_volume_noreset(o) ==
    LET o1 == list_append(o, "t0_volume",
                          RoundFloat((o.data.t0_current_volume * Den) \div Wad))
    IN  list_append(o1, "t1_volume",
                    RoundFloat((o.data.t1_current_volume * Den) \div Wad))

collect_volume(o) ==
    LET o1 == list_append(o, "t0_volume",
                          RoundFloat((o.data.t0_current_volume * Den) \div Wad))
        o2 == list_append(o1, "t1_volume",
                          RoundFloat((o.data.t1_current_volume * Den) \div Wad))
    IN  [o2 EXCEPT !.data.t0_current_volume = 0, !.data.t1_current_volume = 0]

\* pool_contract.slot0() and the prices derived from it: the ledger of this
\* model keeps no price, a sample is identified by the pool it was read from
slot0(st, key) == [sqrtp |-> key, tick |-> key]

\* Pool.exchange_prices
exchange_prices(st) ==
    LET sqrtp == slot0(st, st.pool.pool_contract).sqrtp
    IN  <<[inverse_of |-> sqrtp], [price_of |-> sqrtp]>>

\* Pool.collect_data(step): gives the pool object and the class afterwards
collect_data(st, cls, step) ==
    LET tick == slot0(st, st.pool.pool_contract).tick
        px == exchange_prices(st)
        r  == reserves(st)
        o1 == list_append([data |-> st.pool.data, cls |-> cls], "step", step)
        o2 == list_append(o1, "tick", tick)
        o3 == list_append(o2, "t0_price", px[1])
        o4 == list_append(o3, "t1_price", px[2])
        o5 == collect_volume(o4)
        o6 == list_append(o5, "t0_reserves", r[1])
        o7 == list_append(o6, "t1_reserves", r[2])
    IN  [st |-> [st EXCEPT !.pool.data = o7.data], cls |-> o7.cls]

\* Pool.dataframe: the rows of the collector the pool holds
dataframe(p, cls) ==
    [i \in 1..Len(GetAttr(p.data, cls, "step")) |->
        [steps |-> GetAttr(p.data, cls, "step")[i],
         ticks |-> GetAttr(p.data, cls, "tick")[i],
         t0_price |-> GetAttr(p.data, cls, "t0_price")[i],
         t1_price |-> GetAttr(p.data, cls, "t1_price")[i],
         t0_vol |-> GetAttr(p.data, cls, "t0_volume")[i],
         t1_vol |-> GetAttr(p.data, cls, "t1_volume")[i],
         t0_reserve |-> GetAttr(p.data, cls, "t0_reserves")[i],
         t1_reserve |-> GetAttr(p.data, cls, "t1_reserves")[i]]]

-----------------------------------------------------------------------------
(* src/unisim/dex.py *)

\* no DEX object
NoDex == <<>>

\* one item of DEX.__dict__
DictItem(name, value, is_pool) == [name |-> name, value |-> value, is_pool |-> is_pool]

\* self.__dict__.get(name): the items stored under the name
DictGet(d, name) == {i \in 1..Len(d) : d[i].name = name}

dex_setattr_overwrite(d, name, value, is_pool) ==
    IF DictGet(d, name) # {}
    THEN [err |-> "none",
          dict |-> [i \in 1..Len(d) |->
                      IF d[i].name = name THEN DictItem(name, value, is_pool) ELSE d[i]]]
    ELSE [err |-> "none", dict |-> Append(d, DictItem(name, value, is_pool))]

\* DEX.__setattr__
dex_setattr(d, name, value, is_pool) ==
    IF DictGet(d, name) # {}
    THEN [err |-> "Duplicate Pool", dict |-> d]
    ELSE [err |-> "none", dict |-> Append(d, DictItem(name, value, is_pool))]

\* DEX.__init__: three private attributes, stored through __setattr__
DEX_init ==
    LET d1 == dex_setattr(NoDex, "_DEX__evm", "evm", FALSE).dict
        d2 == dex_setattr(d1, "_DEX__router", SwapRouter, FALSE).dict
    IN  dex_setattr(d2, "_DEX__nft", NftManager, FALSE).dict

\* the items that are pools (or all of them), in order
RECURSIVE FilterItems(_, _)
FilterItems(d, all) ==
    IF Len(d) = 0 THEN <<>>
    ELSE IF all \/ Head(d).is_pool
         THEN <<Head(d)>> \o FilterItems(Tail(d), all)
         ELSE FilterItems(Tail(d), all)

filter_pools_unfiltered(d) == FilterItems(d, TRUE)

\* DEX.__filter_pools
filter_pools(d) == FilterItems(d, FALSE)

\* DEX.list
dex_list(d) == [i \in 1..Len(filter_pools(d)) |-> filter_pools(d)[i].name]

\* DEX.total_number_pools
total_number_pools(d) == Len(filter_pools(d))

\* DEX.add_pool: the Pool is constructed first, then stored under its name;
\* gives the ledger the construction leaves and the new __dict__
add_pool(st, d, t0, t1, fee, addr_a, addr_b) ==
    LET p == Pool_init(st, t0, t1, fee, addr_a, addr_b)
    IN  IF p.err # "none"
        THEN [st |-> [p.st EXCEPT !.pool = st.pool], err |-> p.err, dict |-> d]
        ELSE LET sa == dex_setattr(d, p.st.pool.name, p.st.pool, TRUE)
             IN  [st |-> [p.st EXCEPT !.pool = st.pool], err |-> sa.err, dict |-> sa.dict]

\* DEX.collect_data: every pool of __dict__ in turn, from item i on
RECURSIVE dex_collect_from(_, _, _, _, _)
dex_collect_from(st, d, cls, step_num, i) ==
    IF i > Len(d) THEN [dict |-> d, cls |-> cls]
    ELSE IF ~d[i].is_pool THEN dex_collect_from(st, d, cls, step_num, i + 1)
    ELSE LET c == collect_data([st EXCEPT !.pool = d[i].value], cls, step_num)
         IN  dex_collect_from(st, [d EXCEPT ![i].value = c.st.pool], c.cls,
                              step_num, i + 1)

dex_collect_data(st, d, cls, step_num) == dex_collect_from(st, d, cls, step_num, 1)

\* no simulation engine
NoEngine == <<>>


-----------------------------------------------------------------------------
(* The calls a test or an agent makes, as actions *)

NoSeen == [bal0 |-> 0, bal1 |-> 0, liq |-> 0]

\* what the caller could read before the call: the agent's two balances in
\* wei and the liquidity of the position named
Seen(agent, token_id) ==
    [bal0 |-> BalanceOf(Current, pool.token0, agent),
     bal1 |-> BalanceOf(Current, pool.token1, agent),
     liq  |-> IF HasPosition(Current, token_id)
              THEN evm_positions[token_id].liquidity ELSE 0]

NoRet == [op |-> "none", args |-> <<>>, err |-> "none", out |-> NoOut, seen |-> NoSeen]

Unset == [err |-> "unset", val |-> 0]

NoLookup == [fn |-> "none", arg |-> 0, res |-> Unset, back |-> Unset]

\* the call `op(args)` ends as r says
Apply(op, args, seen, r) ==
    /\ evm_tokens' = r.st.evm_tokens
    /\ evm_pools' = r.st.evm_pools
    /\ evm_positions' = r.st.evm_positions
    /\ pool' = r.st.pool
    /\ ret' = [op |-> op, args |-> args, err |-> r.err, out |-> r.out, seen |-> seen]
    /\ UNCHANGED others

Constructed == pool # NoPool

\* Pool(evm, token_a, token_b, fee, router, nft, deployer); the two
\* deployments get the fresh addresses addr_a and addr_b
Construct(token_a, token_b, fee, addr_a, addr_b) ==
    /\ ~Constructed
    /\ Cardinality(DOMAIN evm_tokens) + 2 <= MaxTokens
    /\ addr_a # addr_b
    /\ addr_a \notin DOMAIN evm_tokens
    /\ addr_b \notin DOMAIN evm_tokens
    /\ LET r == Pool_init(Current, token_a, token_b, fee, addr_a, addr_b)
           \* a call that deploys nothing draws no address
           drawn == r.st.evm_tokens # evm_tokens
       IN  Apply("Pool",
                 <<token_a, token_b, fee,
                   IF drawn THEN addr_a ELSE NoAddr, IF drawn THEN addr_b ELSE NoAddr>>,
                 NoSeen, r)

MintTokens(amt_t0, amt_t1, agent) ==
    /\ Constructed
    /\ TotalSupply(Current, pool.token0) + as_18(amt_t0) <= MaxSupply
    /\ TotalSupply(Current, pool.token1) + as_18(amt_t1) <= MaxSupply
    /\ \E r \in mint_tokens(Current, amt_t0, amt_t1, agent) :
          Apply("mint_tokens", <<amt_t0, amt_t1, agent>>, Seen(agent, 0), r)

BurnTokens(amt_t0, amt_t1, agent) ==
    /\ Constructed
    /\ \E r \in burn_tokens(Current, amt_t0, amt_t1, agent) :
          Apply("burn_tokens", <<amt_t0, amt_t1, agent>>, Seen(agent, 0), r)

MintPosition(token0_amount, token1_amount, low_price, high_price, agent) ==
    /\ Constructed
    /\ Len(evm_positions) < MaxPositions
    /\ \E r \in mint_position(Current, token0_amount, token1_amount,
                              low_price, high_price, agent) :
          Apply("mint_position",
                <<token0_amount, token1_amount, low_price, high_price, agent>>,
                Seen(agent, 0), r)

IncreaseLiquidity(token_id, amount0, amount1, agent) ==
    /\ Constructed
    /\ \E r \in increase_liquidity(Current, token_id, amount0, amount1, agent) :
          Apply("increase_liquidity", <<token_id, amount0, amount1, agent>>,
                Seen(agent, token_id), r)

RemoveLiquidity(token_id, percentage, agent) ==
    /\ Constructed
    /\ \E r \in remove_liquidity(Current, token_id, percentage, agent) :
          Apply("remove_liquidity", <<token_id, percentage, agent>>,
                Seen(agent, token_id), r)

Swap0For1(amount, agent) ==
    /\ Constructed
    /\ pool.data.t0_current_volume + as_18(amount) <= MaxVolume
    /\ \E r \in swap_0_for_1(Current, amount, agent) :
          Apply("swap_0_for_1", <<amount, agent>>, Seen(agent, 0), r)

Swap1For0(amount, agent) ==
    /\ Constructed
    /\ pool.data.t1_current_volume + as_18(amount) <= MaxVolume
    /\ \E r \in swap_1_for_0(Current, amount, agent) :
          Apply("swap_1_for_0", <<amount, agent>>, Seen(agent, 0), r)

\* the address of the n-th contract deployed through the DEX: n in binary
AddrOf(n) == [i \in 1..(AddrLen + 1) |-> (n \div Pow2(AddrLen + 1 - i)) % 2]

\* dex.add_pool(t0, t1, fee, deployer); the second deployment gets the
\* smaller address when swapped
AddPool(t0, t1, fee, swapped) ==
    LET n == Cardinality(DOMAIN evm_tokens)
        r == add_pool(Current, dex, t0, t1, fee,
                      AddrOf(IF swapped THEN n + 1 ELSE n),
                      AddrOf(IF swapped THEN n ELSE n + 1))
    IN  /\ dex # NoDex
        /\ n + 2 <= MaxDexTokens
        /\ n + 2 <= Pow2(AddrLen + 1)
        /\ evm_tokens' = r.st.evm_tokens
        /\ evm_pools' = r.st.evm_pools
        /\ evm_positions' = r.st.evm_positions
        /\ pool' = r.st.pool
        /\ dex' = r.dict
        /\ ret' = [op |-> "add_pool", args |-> <<t0, t1, fee>>, err |-> r.err,
                   out |-> NoOut, seen |-> NoSeen]
        /\ UNCHANGED <<lk, collector, eng>>

\* pool.collect_data(step)
CollectData(step) ==
    LET c == collect_data(Current, collector, step)
    IN  /\ Constructed
        /\ Len(collector.step) < MaxRecords
        /\ pool' = c.st.pool
        /\ collector' = c.cls
        /\ ret' = [op |-> "collect_data", args |-> <<step>>, err |-> "none",
                   out |-> NoOut, seen |-> NoSeen]
        /\ UNCHANGED <<evm_tokens, evm_pools, evm_positions, lk, dex, eng>>

\* dex.collect_data(step_num)
DexCollectData(step_num) ==
    LET c == dex_collect_data(Current, dex, collector, step_num)
    IN  /\ dex # NoDex
        /\ Len(collector.step) + total_number_pools(dex) <= MaxRecords
        /\ dex' = c.dict
        /\ collector' = c.cls
        /\ ret' = [op |-> "dex.collect_data", args |-> <<step_num>>, err |-> "none",
                   out |-> NoOut, seen |-> NoSeen]
        /\ UNCHANGED <<evm_tokens, evm_pools, evm_positions, pool, lk, eng>>

\* get_spacing_for_fee(fee) and get_fee_for_spacing(spacing), and the other
\* lookup applied to what the first returned
LookupSpacing(fee) ==
    /\ lk' = [fn |-> "get_spacing_for_fee", arg |-> fee,
              res |-> get_spacing_for_fee(fee), back |-> Unset]
    /\ UNCHANGED <<evm_tokens, evm_pools, evm_positions, pool, ret, dex, collector, eng>>

LookupFee(spacing) ==
    /\ lk' = [fn |-> "get_fee_for_spacing", arg |-> spacing,
              res |-> get_fee_for_spacing(spacing), back |-> Unset]
    /\ UNCHANGED <<evm_tokens, evm_pools, evm_positions, pool, ret, dex, collector, eng>>

LookupBack ==
    /\ lk.res.err = "none"
    /\ lk.back = Unset
    /\ lk' = [lk EXCEPT !.back = IF lk.fn = "get_spacing_for_fee"
                                 THEN get_fee_for_spacing(lk.res.val)
                                 ELSE get_spacing_for_fee(lk.res.val)]
    /\ UNCHANGED <<evm_tokens, evm_pools, evm_positions, pool, ret, dex, collector, eng>>

-----------------------------------------------------------------------------
(* Inputs *)

\* the amounts callers pass: every float up to MaxAmount units
AmountInputs == {x \in 0..Human(MaxAmount) : IsFloat(x)}

FeeInputs == SeqRange(FEE_RANGE) \cup {333}

LookupInputs ==
    (0..MaxLookup) \cup SeqRange(FEE_RANGE) \cup SeqRange(FEE_TICK_SPACING) \cup {333, 15}

TokenAInputs == {Token("DIA", Human(p)) : p \in 0..2}

TokenBInputs == {Token("USDC", Human(p)) : p \in 1..2}

\* amounts minted and burnt: nothing, less than a wei, a wei, a unit, the most
TokenAmounts == {0, 1, Sub, Human(1), Human(MaxAmount)}

\* amounts offered to a position: nothing, a unit
PositionAmounts == {0, Human(1)}

\* <<low_price, high_price>> of a position: in order, inverted, below one
\* wei, beyond the last tick
PriceRanges ==
    {<<"0.98", "1.02">>, <<"1.02", "0.98">>, <<"1e-19", "1.0">>, <<"1.0", "1e40">>}

\* fractions of a position's liquidity: -0.5, 0, 0.25, 0.5, 1.0, 1.5
FractionInputs ==
    {0 - (Den \div 2), 0, Den \div 4, Den \div 2, Human(1), Human(1) + (Den \div 2)}

\* the addresses the two deployments of the pool under test get: the first
\* token's is the larger one, so construction exchanges them
AddrA == [i \in 1..AddrLen |-> 1]

AddrB == [i \in 1..AddrLen |-> 0]

PoolArgs == <<Token("DIA", Human(1)), Token("USDC", Human(1)), 500, AddrA, AddrB>>

-----------------------------------------------------------------------------
(* src/example/agents.py and src/example/model.py.  The amounts of the     *)
(* source are scaled down with the ledger: a trader is funded with one     *)
(* token and trades one wei or one token, a provider holds two tokens and  *)
(* deposits one.  The random source is any sequence of draws.              *)

ZI_AGENT_FUNDING == Human(1)

\* random() < SWAP_PROB
SWAP_PROB == BOOLEAN

\* randrange(RAND_RANGE[0], RAND_RANGE[1])
RAND_RANGE == {Den \div 2, Human(1)}

\* one provider per trader instead of one per ten
PERCENTAGE_OF_LP_AGENTS == Human(1)

INITIAL_TOKEN_BALANCE == Human(2)

INITIAL_POSITION_AMOUNT == Human(1)

\* randrange(POSITION_RANGE[0], POSITION_RANGE[1])
POSITION_RANGE == {Human(1)}

PRICE_RANGE == <<<<"0.98", "1.0">>, <<"0.985", "1.01">>, <<"0.99", "1.03">>>>

\* randrange(5, 20) / 100, scaled to a half
RemovePercentages == {Den \div 2}

\* the accounts create_many_accounts hands out, providers then traders
LpAccounts == <<"lp">>

ZiAccounts == <<"bob">>

\* round(x) of a float: to the nearest integer, a tie to the even one
round(x) ==
    LET q == x \div Den
        r == x % Den
    IN  IF 2 * r < Den THEN q
        ELSE IF 2 * r > Den THEN q + 1
        ELSE IF q % 2 = 0 THEN q ELSE q + 1

\* a call an agent's turn made: the values it drew from model.random, what
\* it called and how that ended
Call(st, draws, op, args, err, out) ==
    [st |-> st, draws |-> draws, op |-> op, args |-> args, err |-> err, out |-> out]

\* a turn that calls nothing
Pass(st, agent, draws) == Call(st, draws, "pass", <<agent.address>>, "none", NoOut)

Calls(draws, op, args, results) ==
    {Call(r.st, draws, op, args, r.err, r.out) : r \in results}

\* ZIAgent.__init__
ZIAgent_init(st, address) ==
    {[st |-> r.st, err |-> r.err, draws |-> <<>>,
      agent |-> [kind |-> "ZIAgent", address |-> address, tokenid |-> 0]]
     : r \in mint_tokens(st, ZI_AGENT_FUNDING, ZI_AGENT_FUNDING, address)}

ZIAgent_step_unseeded(st, agent) ==
    UNION {IF ~swap THEN {Pass(st, agent, <<swap>>)}
           ELSE UNION {UNION {
                  IF token_to_buy = 0
                  THEN Calls(<<swap, token_to_buy>>,
                             "swap_1_for_0", <<random_amount, agent.address>>,
                             swap_1_for_0(st, random_amount, agent.address))
                  ELSE Calls(<<swap, token_to_buy>>,
                             "swap_0_for_1", <<random_amount, agent.address>>,
                             swap_0_for_1(st, random_amount, agent.address))
                  : random_amount \in RAND_RANGE} : token_to_buy \in {0, 1}}
           : swap \in SWAP_PROB}

\* ZIAgent.step
ZIAgent_step(st, agent) ==
    UNION {IF ~swap THEN {Pass(st, agent, <<swap>>)}
           ELSE UNION {UNION {
                  IF token_to_buy = 0
                  THEN Calls(<<swap, token_to_buy, random_amount>>,
                             "swap_1_for_0", <<random_amount, agent.address>>,
                             swap_1_for_0(st, random_amount, agent.address))
                  ELSE Calls(<<swap, token_to_buy, random_amount>>,
                             "swap_0_for_1", <<random_amount, agent.address>>,
                             swap_0_for_1(st, random_amount, agent.address))
                  : random_amount \in RAND_RANGE} : token_to_buy \in {0, 1}}
           : swap \in SWAP_PROB}

\* LPAgent.__init__
LPAgent_init(st, address) ==
    UNION {UNION {
        {[st |-> r.st, err |-> r.err, draws |-> <<k>>,
          agent |-> [kind |-> "LPAgent", address |-> address,
                     tokenid |-> IF r.err = "none" THEN r.out[3] ELSE 0]]
         : r \in mint_position(m.st, INITIAL_POSITION_AMOUNT, INITIAL_POSITION_AMOUNT,
                               PRICE_RANGE[k][1], PRICE_RANGE[k][2], address)}
        : k \in 1..Len(PRICE_RANGE)}
      : m \in mint_tokens(st, INITIAL_TOKEN_BALANCE, INITIAL_TOKEN_BALANCE, address)}

LPAgent_increase_liquidity_unchecked(st, agent, choice) ==
    UNION {Calls(<<choice, amount>>, "increase_liquidity",
                 <<agent.tokenid, amount, amount, agent.address>>,
                 increase_liquidity(st, agent.tokenid, amount, amount, agent.address))
           : amount \in POSITION_RANGE}

\* LPAgent.increase_liquidity
LPAgent_increase_liquidity(st, agent, choice) ==
    UNION {LET bal == pair_balance(st, agent.address)
           IN  IF amount <= bal[1] /\ amount <= bal[2]
               THEN Calls(<<choice, amount>>, "increase_liquidity",
                          <<agent.tokenid, amount, amount, agent.address>>,
                          increase_liquidity(st, agent.tokenid, amount, amount,
                                             agent.address))
               ELSE {Pass(st, agent, <<choice, amount>>)}
           : amount \in POSITION_RANGE}

\* LPAgent.decrease_liquidity
LPAgent_decrease_liquidity(st, agent, choice) ==
    IF get_position(st, agent.tokenid)[4] = 0 THEN {Pass(st, agent, <<choice>>)}
    ELSE UNION {Calls(<<choice, percentage>>, "remove_liquidity",
                      <<agent.tokenid, percentage, agent.address>>,
                      remove_liquidity(st, agent.tokenid, percentage, agent.address))
                : percentage \in RemovePercentages}

\* LPAgent.step
LPAgent_step(st, agent) ==
    UNION {IF choice = 0 THEN {Pass(st, agent, <<choice>>)}
           ELSE IF choice = 1 THEN LPAgent_increase_liquidity(st, agent, choice)
           ELSE LPAgent_decrease_liquidity(st, agent, choice)
           : choice \in {0, 1, 2}}

\* agent.step() of either class
agent_step(st, agent) ==
    IF agent.kind = "LPAgent" THEN LPAgent_step(st, agent) ELSE ZIAgent_step(st, agent)

\* WhaleAgent: the amount it dumps and the steps it dumps at, scaled from
\* 1,000,000 and 50..53
whale_amount == Human(2)

activation_range == <<1, 2>>

\* self.model.<name>: the attribute of the model object, else AttributeError
ModelAttr(e, name) ==
    IF name \in DOMAIN e THEN Ok(e[name]) ELSE Raise("AttributeError")

\* WhaleAgent.__init__
WhaleAgent_init(e, st, address) ==
    LET nsteps == ModelAttr(e, "nsteps")
    IN  IF nsteps.err # "none" THEN Fail(st, nsteps.err)
        ELSE IF ~(nsteps.val >= activation_range[Len(activation_range)])
        THEN Fail(st, "not enough steps for the current whale")
        ELSE Done(st, NoOut)

\* WhaleAgent.step
WhaleAgent_step(e, st, agent) ==
    LET schedule == ModelAttr(e, "schedule")
    IN  IF schedule.err # "none"
        THEN {Call(st, <<>>, "step", <<agent.address>>, schedule.err, NoOut)}
        ELSE IF schedule.val.steps \in SeqRange(activation_range)
        THEN Calls(<<>>, "swap_0_for_1", <<whale_amount, agent.address>>,
                   swap_0_for_1(st, whale_amount, agent.address))
        ELSE {Pass(st, agent, <<>>)}

\* the turn of an agent of any class
turn(e, st, agent) ==
    IF agent.kind = "WhaleAgent" THEN WhaleAgent_step(e, st, agent)
    ELSE agent_step(st, agent)

\* the agents created one after the other from the accounts at i..Len(accounts):
\* the states the constructors can leave, with the agents added so far
RECURSIVE create_agents(_, _, _, _)
create_agents(made, kind, accounts, i) ==
    IF i > Len(accounts) \/ made.err # "none" THEN {made}
    ELSE UNION {create_agents([st |-> r.st, err |-> r.err,
                               draws |-> made.draws \o r.draws,
                               agents |-> IF r.err = "none"
                                          THEN Append(made.agents, r.agent)
                                          ELSE made.agents],
                              kind, accounts, i + 1)
                : r \in IF kind = "LPAgent" THEN LPAgent_init(made.st, accounts[i])
                        ELSE ZIAgent_init(made.st, accounts[i])}

\* StablecoinModel.__init__(evm, num_agents, num_steps): the engines it can
\* leave, each with the ledger and the pool it was built on
StablecoinModel_init(num_agents, num_steps) ==
    LET p == Pool_init(EmptyState, Token("DIA", Human(1)), Token("USDC", Human(1)),
                       500, AddrA, AddrB)
        total_lp_agents ==
            round(FloatMul(IntToFloat(num_agents), PERCENTAGE_OF_LP_AGENTS))
        lps == create_agents([st |-> p.st, err |-> p.err, draws |-> <<>>,
                              agents |-> <<>>], "LPAgent",
                             SubSeq(LpAccounts, 1, total_lp_agents), 1)
    IN  UNION {create_agents(l, "ZIAgent", SubSeq(ZiAccounts, 1, num_agents), 1)
               : l \in lps}

Shuffles_repeating(n) == [1..n -> 1..n]

\* the orders agents.shuffle_do can take n agents in
Shuffles(n) ==
    {o \in [1..n -> 1..n] : \A a, b \in 1..n : o[a] = o[b] => a = b}

turn_ended_caught(e, err) == [e EXCEPT !.todo = Tail(@)]

\* where a turn leaves the engine: at the next agent of the order, or, when
\* it raised, out of shuffle_do, step and run_model, none of which has a
\* try statement
turn_ended(e, err) ==
    IF err = "none" THEN [e EXCEPT !.todo = Tail(@)]
    ELSE [e EXCEPT !.phase = "aborted"]

\* WhaleAgent(address, model) before the run; Agent.__init__ has run when
\* the constructor raises, and may have added the agent to the model's
\* agents by then
CreateWhale(address) ==
    LET r == WhaleAgent_init(eng, Current, address)
        whale == [kind |-> "WhaleAgent", address |-> address, tokenid |-> 0]
    IN  /\ eng # NoEngine
        /\ eng.phase = "idle" /\ eng.steps = 0
        /\ \A k \in 1..Len(eng.agents) : eng.agents[k].address # address
        /\ ret.op # "WhaleAgent"
        /\ \E registered \in IF r.err = "none" THEN {TRUE} ELSE BOOLEAN :
              eng' = IF registered THEN [eng EXCEPT !.agents = Append(@, whale)]
                     ELSE eng
        /\ ret' = [op |-> "WhaleAgent", args |-> <<address>>, err |-> r.err,
                   out |-> NoOut, seen |-> NoSeen]
        /\ UNCHANGED <<evm_tokens, evm_pools, evm_positions, pool, lk, dex, collector>>

\* model.step() begins: the step counter advances and shuffle_do fixes the
\* order of the turns
StepBegin ==
    /\ eng # NoEngine
    /\ eng.phase = "idle"
    /\ eng.i < eng.num_steps
    /\ \E order \in Shuffles(Len(eng.agents)) :
          eng' = [eng EXCEPT !.steps = @ + 1, !.todo = order, !.phase = "turns"]
    /\ ret' = [op |-> "step", args |-> <<eng.steps + 1>>, err |-> "none",
               out |-> NoOut, seen |-> NoSeen]
    /\ UNCHANGED <<evm_tokens, evm_pools, evm_positions, pool, lk, dex, collector>>

\* the turn of the next agent of the order; an error it raises leaves
\* shuffle_do, step and run_model
AgentTurn ==
    /\ eng # NoEngine
    /\ eng.phase = "turns"
    /\ eng.todo # <<>>
    /\ \E c \in turn(eng, Current, eng.agents[Head(eng.todo)]) :
          /\ evm_tokens' = c.st.evm_tokens
          /\ evm_pools' = c.st.evm_pools
          /\ evm_positions' = c.st.evm_positions
          /\ pool' = c.st.pool
          /\ ret' = [op |-> c.op, args |-> c.args, err |-> c.err, out |-> c.out,
                     seen |-> Seen(eng.agents[Head(eng.todo)].address,
                                   eng.agents[Head(eng.todo)].tokenid)]
          /\ eng' = turn_ended(eng, c.err)
    /\ UNCHANGED <<lk, dex, collector>>

\* every agent has had its turn: pool.collect_data(self.steps), and run_model
\* goes on to the next step
StepEnd ==
    LET c == collect_data(Current, collector, eng.steps)
    IN  /\ eng # NoEngine
        /\ eng.phase = "turns"
        /\ eng.todo = <<>>
        /\ pool' = c.st.pool
        /\ collector' = c.cls
        /\ eng' = [eng EXCEPT !.i = @ + 1, !.phase = "idle"]
        /\ ret' = [op |-> "collect_data", args |-> <<eng.steps>>, err |-> "none",
                   out |-> NoOut, seen |-> NoSeen]
        /\ UNCHANGED <<evm_tokens, evm_pools, evm_positions, lk, dex>>

-----------------------------------------------------------------------------
(* Specifications *)

\* nothing deployed, no pool constructed
InitEmpty ==
    /\ evm_tokens = <<>>
    /\ evm_pools = {}
    /\ evm_positions = <<>>
    /\ pool = NoPool
    /\ ret = NoRet
    /\ lk = NoLookup
    /\ dex = NoDex
    /\ collector = DataCollector_class
    /\ eng = NoEngine

\* the fee schedule lookups
NextLookup ==
    \/ \E fee \in LookupInputs : LookupSpacing(fee)
    \/ \E spacing \in LookupInputs : LookupFee(spacing)
    \/ LookupBack

SpecLookup == InitEmpty /\ [][NextLookup]_vars

\* construction of a pool, and the first calls on it
NextCtor ==
    \/ \E ta \in TokenAInputs, tb \in TokenBInputs, fee \in FeeInputs,
          aa \in Addr, ab \in Addr : Construct(ta, tb, fee, aa, ab)
    \/ MintTokens(Human(1), Human(1), "lp")
    \/ MintPosition(Human(1), Human(1), "0.98", "1.02", "lp")

SpecCtor == InitEmpty /\ [][NextCtor]_vars

\* Pool(evm, Token("DIA", 1), Token("USDC", 1), 500, ...) has returned
InitPool ==
    LET r == Pool_init(EmptyState, PoolArgs[1], PoolArgs[2], PoolArgs[3],
                       PoolArgs[4], PoolArgs[5])
    IN  /\ evm_tokens = r.st.evm_tokens
        /\ evm_pools = r.st.evm_pools
        /\ evm_positions = r.st.evm_positions
        /\ pool = r.st.pool
        /\ ret = [op |-> "Pool", args |-> PoolArgs, err |-> r.err, out |-> r.out,
                  seen |-> NoSeen]
        /\ lk = NoLookup
        /\ dex = NoDex
        /\ collector = DataCollector_class
        /\ eng = NoEngine
    /\ collector = DataCollector_class
    /\ eng = NoEngine

\* minting and burning tokens
NextTokens ==
    \/ \E a0 \in TokenAmounts, a1 \in TokenAmounts, agent \in Agents :
          MintTokens(a0, a1, agent)
    \/ \E a0 \in TokenAmounts, a1 \in TokenAmounts, agent \in Agents :
          BurnTokens(a0, a1, agent)

SpecTokens == InitPool /\ [][NextTokens]_vars

\* liquidity positions of one provider; the other agent owns none
NextPositions ==
    \/ MintTokens(Human(1), Human(1), "lp")
    \/ \E a0 \in PositionAmounts, a1 \in PositionAmounts, pr \in PriceRanges :
          MintPosition(a0, a1, pr[1], pr[2], "lp")
    \/ \E id \in 1..MaxPositions, a0 \in PositionAmounts, a1 \in PositionAmounts :
          IncreaseLiquidity(id, a0, a1, "lp")
    \/ \E id \in 1..MaxPositions : IncreaseLiquidity(id, Human(1), Human(1), "bob")
    \/ \E id \in 1..MaxPositions, f \in FractionInputs, agent \in Agents :
          RemoveLiquidity(id, f, agent)

SpecPositions == InitPool /\ [][NextPositions]_vars

\* swaps of one trader against the liquidity of one provider
NextSwaps ==
    \/ MintTokens(Human(1), Human(1), "lp")
    \/ MintTokens(Den \div 2, Den \div 2, "bob")
    \/ MintPosition(Human(1), Human(1), "0.98", "1.02", "lp")
    \/ \E amount \in AmountInputs : Swap0For1(amount, "bob")
    \/ \E amount \in AmountInputs : Swap1For0(amount, "bob")

SpecSwaps == InitPool /\ [][NextSwaps]_vars

\* deposits and swaps, with nothing burnt and nothing withdrawn
NextConserve ==
    \/ MintTokens(Human(1), Human(1), "lp")
    \/ MintTokens(Den \div 2, Den \div 2, "bob")
    \/ \E a0 \in PositionAmounts, a1 \in PositionAmounts :
          MintPosition(a0, a1, "0.98", "1.02", "lp")
    \/ \E id \in 1..MaxPositions, a0 \in PositionAmounts, a1 \in PositionAmounts :
          IncreaseLiquidity(id, a0, a1, "lp")
    \/ \E amount \in AmountInputs : Swap0For1(amount, "bob")
    \/ \E amount \in AmountInputs : Swap1For0(amount, "bob")

SpecConserve == InitPool /\ [][NextConserve]_vars

\* a pool with one funded position of lp and a funded trader bob: the pool
\* is constructed, then mint_tokens(2, 2, lp), mint_position(1, 1, 0.98,
\* 1.02, lp), which took both amounts in full, and mint_tokens(0.5, 0.5,
\* bob) have returned
InitTrading ==
    \E r1 \in mint_tokens(Pool_init(EmptyState, PoolArgs[1], PoolArgs[2], PoolArgs[3],
                                    PoolArgs[4], PoolArgs[5]).st,
                          Human(2), Human(2), "lp") :
    \E r2 \in mint_position(r1.st, Human(1), Human(1), "0.98", "1.02", "lp") :
    \E r3 \in mint_tokens(r2.st, Den \div 2, Den \div 2, "bob") :
        /\ r2.err = "none"
        /\ r2.out[1] = as_18(Human(1)) /\ r2.out[2] = as_18(Human(1))
        /\ evm_tokens = r3.st.evm_tokens
        /\ evm_pools = r3.st.evm_pools
        /\ evm_positions = r3.st.evm_positions
        /\ pool = r3.st.pool
        /\ ret = [op |-> "mint_tokens", args |-> <<Den \div 2, Den \div 2, "bob">>,
                  err |-> r3.err, out |-> r3.out, seen |-> NoSeen]
        /\ lk = NoLookup
        /\ dex = NoDex
        /\ collector = DataCollector_class
        /\ eng = NoEngine

\* the amounts swapped between two collections: one wei and one token
VolumeAmounts == {Den \div 2, Human(1)}

\* swaps of one trader, and the data collected between them
NextVolume ==
    \/ \E amount \in VolumeAmounts : Swap0For1(amount, "bob")
    \/ \E amount \in VolumeAmounts : Swap1For0(amount, "bob")
    \/ CollectData(Len(collector.step) + 1)

SpecVolume == InitTrading /\ [][NextVolume]_vars

\* DEX(evm) has returned
InitDex ==
    /\ evm_tokens = <<>>
    /\ evm_pools = {}
    /\ evm_positions = <<>>
    /\ pool = NoPool
    /\ ret = NoRet
    /\ lk = NoLookup
    /\ dex = DEX_init
    /\ collector = DataCollector_class
    /\ eng = NoEngine

\* the tokens and fees pools are added with: a first token of price 0, a
\* second token of price 2 and the fee 333 make the construction fail
DexTokenAInputs == {Token("USDC", Human(1)), Token("DAI", Human(1)), Token("DAI", 0)}

DexTokenBInputs == {Token("DAI", Human(1)), Token("ETH", Human(1)), Token("DAI", Human(2))}

DexFeeInputs == {500, 333}

NextDex ==
    \E t0 \in DexTokenAInputs, t1 \in DexTokenBInputs, fee \in DexFeeInputs,
       swapped \in BOOLEAN : AddPool(t0, t1, fee, swapped)

SpecDex == InitDex /\ [][NextDex]_vars

\* an exchange of several pools whose data is collected step by step
NextCollect ==
    \/ \E t0 \in {Token("USDC", Human(1)), Token("DAI", Human(1))},
          t1 \in {Token("DAI", Human(1)), Token("ETH", Human(1))} :
          AddPool(t0, t1, 500, FALSE)
    \/ \E step_num \in 1..MaxSteps : DexCollectData(step_num)

SpecCollect == InitDex /\ [][NextCollect]_vars

\* the largest num_agents a model is built with
NumAgents == 1

\* the largest num_steps a model is run for
NumSteps == 2

\* the position of every provider took both of its amounts in full
FullyDeposited(m) ==
    \A k \in 1..Len(m.agents) :
        m.agents[k].kind = "LPAgent"
            => /\ BalanceOf(m.st, m.st.pool.token0, m.agents[k].address)
                    = as_18(INITIAL_TOKEN_BALANCE) - as_18(INITIAL_POSITION_AMOUNT)
               /\ BalanceOf(m.st, m.st.pool.token1, m.agents[k].address)
                    = as_18(INITIAL_TOKEN_BALANCE) - as_18(INITIAL_POSITION_AMOUNT)

\* StablecoinModel(evm, num_agents, num_steps) has returned, in a process
\* that collected no data before; the runs followed are those of the models
\* whose providers deposited in full
InitEngine ==
    \E num_agents \in 0..NumAgents, num_steps \in 1..NumSteps :
    \E m \in StablecoinModel_init(num_agents, num_steps) :
        /\ m.err = "none"
        /\ FullyDeposited(m)
        /\ evm_tokens = m.st.evm_tokens
        /\ evm_pools = m.st.evm_pools
        /\ evm_positions = m.st.evm_positions
        /\ pool = m.st.pool
        /\ ret = [op |-> "StablecoinModel", args |-> <<num_agents, num_steps>>,
                  err |-> "none", out |-> NoOut, seen |-> NoSeen]
        /\ lk = NoLookup
        /\ dex = NoDex
        /\ collector = DataCollector_class
        /\ eng = [num_agents |-> num_agents, num_steps |-> num_steps,
                  agents |-> m.agents, steps |-> 0, i |-> 0, todo |-> <<>>,
                  phase |-> "idle"]

\* model.run_model()
NextEngine ==
    \/ StepBegin
    \/ AgentTurn
    \/ StepEnd

SpecEngine == InitEngine /\ [][NextEngine]_vars

\* a run of a model a whale was created for
NextWhale ==
    \/ CreateWhale(WhaleAccount)
    \/ StepBegin
    \/ AgentTurn
    \/ StepEnd

SpecWhale == InitEngine /\ [][NextWhale]_vars

-----------------------------------------------------------------------------
(* Claims *)

ValidFees == {100, 500, 3000, 10000}

ValidSpacings == {1, 10, 60, 200}

\* C1: a constructed pool has token0.address < token1.address in byte order,
\* in the state construction leaves and in every later one, and the
\* sortedness assertion of mint_position never fails.
C1_TokensSorted ==
    /\ Constructed => BytesLess(pool.token0, pool.token1)
    /\ ret.err # "token pair are not sorted"

\* a pool was constructed whose second deployment got the smaller address
C1_Witness ==
    /\ ret.op = "Pool" /\ ret.err = "none"
    /\ BytesLess(ret.args[5], ret.args[4])
    /\ pool.token0 = ret.args[5] /\ pool.token1 = ret.args[4]

\* C2: construction with a fee outside the fee schedule, or with a second
\* token whose start price is not 1, fails, and the step changes nothing in
\* the ledger: no token is deployed, no pool is created.
C2_InvalidConstructionFails ==
    [][(ret'.op = "Pool"
        /\ (ret'.args[3] \notin ValidFees \/ ret'.args[2].start_price # Human(1)))
       => /\ ret'.err = IF ret'.args[3] \notin ValidFees
                        THEN "Not a valid pool fee"
                        ELSE "token b should always have a starting price of 1"
          /\ UNCHANGED <<evm_tokens, evm_pools, evm_positions, pool>>]_vars

\* a construction was refused for the second token's price
C2_Witness ==
    /\ ret.op = "Pool"
    /\ ret.args[3] \in ValidFees /\ ret.args[2].start_price # Human(1)
    /\ ret.err = "token b should always have a starting price of 1"
    /\ evm_tokens = <<>> /\ evm_pools = {}

\* C3: after construction token0 carries the first supplied symbol and token1
\* the second, whether or not the addresses were exchanged, and the pool is
\* named <first symbol>_<second symbol>_<fee>; the symbols stay so afterwards.
C3_SymbolsFollowInput ==
    /\ (ret.op = "Pool" /\ ret.err = "none") =>
          /\ evm_tokens[pool.token0].symbol = ret.args[1].symbol
          /\ evm_tokens[pool.token1].symbol = ret.args[2].symbol
          /\ pool.name = ret.args[1].symbol \o "_" \o ret.args[2].symbol
                            \o "_" \o ToString(ret.args[3])
    /\ Constructed =>
          /\ evm_tokens[pool.token0].symbol = pool.data.token0_symbol
          /\ evm_tokens[pool.token1].symbol = pool.data.token1_symbol

\* construction exchanged the two contracts and token0, deployed second with
\* the second symbol, now carries the first
C3_Witness ==
    /\ ret.op = "Pool" /\ ret.err = "none"
    /\ BytesLess(ret.args[5], ret.args[4])
    /\ ret.args[1].symbol # ret.args[2].symbol
    /\ evm_tokens[ret.args[5]].symbol = ret.args[1].symbol

\* C4: get_spacing_for_fee and get_fee_for_spacing are inverse bijections
\* between {100, 500, 3000, 10000} and {1, 10, 60, 200}; any other argument
\* raises an error.
C4_FeeSpacingBijection ==
    /\ lk.fn = "get_spacing_for_fee" =>
          IF lk.arg \in ValidFees
          THEN /\ lk.res.err = "none" /\ lk.res.val \in ValidSpacings
               /\ lk.back # Unset => lk.back = Ok(lk.arg)
          ELSE lk.res.err = "not a valid fee"
    /\ lk.fn = "get_fee_for_spacing" =>
          IF lk.arg \in ValidSpacings
          THEN /\ lk.res.err = "none" /\ lk.res.val \in ValidFees
               /\ lk.back # Unset => lk.back = Ok(lk.arg)
          ELSE lk.res.err = "not a valid tick spacing"

\* the fee found for spacing 60 was looked up back to spacing 60
C4_Witness ==
    /\ lk.fn = "get_fee_for_spacing" /\ lk.arg = 60
    /\ lk.res = Ok(3000) /\ lk.back = Ok(60)

\* the ledger, the positions and the pool object, as one step leaves them alone
LedgerUnchanged == UNCHANGED <<evm_tokens, evm_pools, evm_positions, pool>>

\* C5: burn_tokens treats the two sides independently: a side whose scaled
\* amount is positive and at most the owner's balance goes down by exactly
\* that amount, any other side is left as it was; the call never fails and
\* no balance is ever negative.
C5_BurnPerSide ==
    /\ ret.op = "burn_tokens" =>
          LET at0 == as_18(ret.args[1])
              at1 == as_18(ret.args[2])
              agent == ret.args[3]
          IN  /\ ret.err = "none"
              /\ BalanceOf(Current, pool.token0, agent) =
                    IF at0 > 0 /\ at0 <= ret.seen.bal0
                    THEN ret.seen.bal0 - at0 ELSE ret.seen.bal0
              /\ BalanceOf(Current, pool.token1, agent) =
                    IF at1 > 0 /\ at1 <= ret.seen.bal1
                    THEN ret.seen.bal1 - at1 ELSE ret.seen.bal1
    /\ Constructed =>
          \A h \in Holders : /\ BalanceOf(Current, pool.token0, h) >= 0
                             /\ BalanceOf(Current, pool.token1, h) >= 0

\* a burn took its token1 side and left the token0 side, which asked for
\* more than the owner had
C5_Witness ==
    /\ ret.op = "burn_tokens" /\ ret.err = "none"
    /\ as_18(ret.args[1]) > ret.seen.bal0 /\ ret.seen.bal0 > 0
    /\ as_18(ret.args[2]) > 0 /\ as_18(ret.args[2]) <= ret.seen.bal1
    /\ BalanceOf(Current, pool.token0, ret.args[3]) = ret.seen.bal0
    /\ BalanceOf(Current, pool.token1, ret.args[3]) = ret.seen.bal1 - as_18(ret.args[2])

\* C6: mint_position fails with "insufficient balance" whenever the owner's
\* balance of either token, as pair_balance reports it, is below the amount
\* asked for that token, and the step then grants no approval, opens no
\* position and changes no balance or reserve.
C6_MintPositionNeedsBalance ==
    [][(/\ ret'.op = "mint_position"
        /\ \/ pair_balance(Current, ret'.args[5])[1] < ret'.args[1]
           \/ pair_balance(Current, ret'.args[5])[2] < ret'.args[2])
       => /\ ret'.err = "insufficient balance"
          /\ LedgerUnchanged]_vars

\* a mint_position was refused for token1 alone: the owner had the token0
\* asked for, keeps both balances, and the position manager is not approved
\* for the token1 amount
C6_Witness ==
    /\ ret.op = "mint_position" /\ ret.err = "insufficient balance"
    /\ from_18(ret.seen.bal0) >= ret.args[1] /\ ret.args[1] > 0
    /\ from_18(ret.seen.bal1) < ret.args[2]
    /\ BalanceOf(Current, pool.token0, ret.args[5]) = ret.seen.bal0
    /\ BalanceOf(Current, pool.token1, ret.args[5]) = ret.seen.bal1
    /\ Allowance(Current, pool.token1, ret.args[5], NftManager) < as_18(ret.args[2])

\* C7: swap_0_for_1 (swap_1_for_0) fails with "insufficient balance!" when the
\* trader's token0 (token1) balance, as pair_balance reports it, is below the
\* input amount, and the step then approves nothing, swaps nothing, and
\* leaves balances, reserves and the volume accumulator as they were.
C7_SwapNeedsBalance ==
    [][(\/ /\ ret'.op = "swap_0_for_1"
           /\ pair_balance(Current, ret'.args[2])[1] < ret'.args[1]
        \/ /\ ret'.op = "swap_1_for_0"
           /\ pair_balance(Current, ret'.args[2])[2] < ret'.args[1])
       => /\ ret'.err = "insufficient balance!"
          /\ LedgerUnchanged]_vars

\* a swap_1_for_0 was refused although the trader had the amount in token0,
\* in a pool that has liquidity; no approval to the router is standing
C7_Witness ==
    /\ ret.op = "swap_1_for_0" /\ ret.err = "insufficient balance!"
    /\ from_18(ret.seen.bal1) < ret.args[1]
    /\ from_18(ret.seen.bal0) >= ret.args[1]
    /\ TotalLiquidity(Current) > 0
    /\ Allowance(Current, pool.token1, ret.args[2], SwapRouter) = 0

\* C8: remove_liquidity fails with "invalid percentage" when the fraction is
\* <= 0 or > 1, before any ledger call: the position's liquidity, its owed
\* amounts and all balances are as before.
C8_InvalidFractionRejected ==
    [][(/\ ret'.op = "remove_liquidity"
        /\ (ret'.args[2] <= 0 \/ ret'.args[2] > Human(1)))
       => /\ ret'.err = "invalid percentage"
          /\ LedgerUnchanged]_vars

\* the owner asked to remove 1.5 of a position that has liquidity, and the
\* position kept it
C8_Witness ==
    /\ ret.op = "remove_liquidity" /\ ret.err = "invalid percentage"
    /\ ret.args[2] > Human(1)
    /\ ret.seen.liq > 0
    /\ evm_positions[ret.args[1]].owner = ret.args[3]
    /\ evm_positions[ret.args[1]].liquidity = ret.seen.liq

\* C9: remove_liquidity(id, f) by the owner with 0 < f <= 1 on a position with
\* liquidity > 0 leaves the position with strictly less liquidity, the amount
\* removed being floor(liquidity * f), whatever the starting liquidity.
C9_RemoveStrictlyDecreases ==
    (/\ ret.op = "remove_liquidity"
     /\ ret.args[2] > 0 /\ ret.args[2] <= Human(1)
     /\ ret.seen.liq > 0
     /\ evm_positions[ret.args[1]].owner = ret.args[3])
    => /\ ret.err = "none"
       /\ evm_positions[ret.args[1]].liquidity < ret.seen.liq
       /\ ret.seen.liq - evm_positions[ret.args[1]].liquidity =
             (ret.seen.liq * ret.args[2]) \div Den

\* the owner removed half of a position of liquidity 1, and it still has 1
C9_Witness ==
    /\ ret.op = "remove_liquidity"
    /\ ret.args[2] = Den \div 2
    /\ ret.seen.liq = 1
    /\ evm_positions[ret.args[1]].owner = ret.args[3]
    /\ evm_positions[ret.args[1]].liquidity = 1

\* C10: an increase_liquidity that returns leaves the position it names with
\* strictly more liquidity than before, and every other position with the
\* liquidity it had.
C10_IncreaseStrictlyIncreases ==
    [][(ret'.op = "increase_liquidity" /\ ret'.err = "none")
       => /\ Len(evm_positions') = Len(evm_positions)
          /\ ret'.args[1] \in 1..Len(evm_positions)
          /\ \A id \in 1..Len(evm_positions) :
                IF id = ret'.args[1]
                THEN evm_positions'[id].liquidity > evm_positions[id].liquidity
                ELSE evm_positions'[id].liquidity = evm_positions[id].liquidity]_vars

\* the second of two positions was increased by the liquidity the call
\* returned, and the first still has liquidity
C10_Witness ==
    /\ ret.op = "increase_liquidity" /\ ret.err = "none"
    /\ ret.args[1] = 2 /\ Len(evm_positions) = 2
    /\ evm_positions[2].liquidity = ret.seen.liq + ret.out[1]
    /\ ret.out[1] > 0 /\ ret.seen.liq > 0
    /\ evm_positions[1].liquidity > 0

\* what one step adds to an account's balance of a token
Delta(token, who) ==
    evm_tokens'[token].balanceOf[who] - evm_tokens[token].balanceOf[who]

\* one step moves in0 of token0 and in1 of token1 from `who` into the pool
\* (a negative amount moves out of it), and nothing else to or from the pool
MovesIntoPool(who, in0, in1) ==
    /\ Delta(pool.token0, PoolAccount) = in0
    /\ Delta(pool.token1, PoolAccount) = in1
    /\ Delta(pool.token0, who) = 0 - in0
    /\ Delta(pool.token1, who) = 0 - in1

\* C11: with no burns, the reserves start at (0, 0) and every operation
\* changes them by exactly what it reports: a position mint or increase adds
\* the used amounts it returns, a swap adds its input to the input side and
\* removes the returned output from the other side, the counterparty's
\* balances change by the opposite amounts, and mint_tokens or a failed
\* operation moves nothing.
C11_ReservesConserved ==
    /\ reserves(Current) = <<0, 0>>
    /\ [][/\ (ret'.err # "none" \/ ret'.op = "mint_tokens")
               => MovesIntoPool(PoolAccount, 0, 0)
          /\ (ret'.err = "none" /\ ret'.op = "mint_position")
               => MovesIntoPool(ret'.args[5], ret'.out[1], ret'.out[2])
          /\ (ret'.err = "none" /\ ret'.op = "increase_liquidity")
               => MovesIntoPool(ret'.args[4], ret'.out[2], ret'.out[3])
          /\ (ret'.err = "none" /\ ret'.op = "swap_0_for_1")
               => MovesIntoPool(ret'.args[2], ret'.out[1], 0 - ret'.out[2])
          /\ (ret'.err = "none" /\ ret'.op = "swap_1_for_0")
               => MovesIntoPool(ret'.args[2], 0 - ret'.out[2], ret'.out[1])]_vars

\* a swap of token1 for token0 paid out of reserves that a position mint
\* had filled unevenly
C11_Witness ==
    /\ ret.op = "swap_1_for_0" /\ ret.err = "none"
    /\ ret.out[1] > 0 /\ ret.out[2] > 0
    /\ BalanceOf(Current, pool.token0, PoolAccount)
          # BalanceOf(Current, pool.token1, PoolAccount)
    /\ BalanceOf(Current, pool.token1, ret.args[2]) = ret.seen.bal1 - ret.out[1]
    /\ BalanceOf(Current, pool.token0, ret.args[2]) = ret.seen.bal0 + ret.out[2]

\* the canonical name of the pool an add_pool call asks for
NameAsked == PoolName(ret'.args[1], ret'.args[2], ret'.args[3])

\* the pools registered under a name in a __dict__
Registered(d, name) == {d[i].value : i \in DictGet(d, name)}

C13_ListInInsertionOrder ==
    /\ dex_list(dex) = <<>>
    /\ [][ret'.op = "add_pool" =>
            IF ret'.err = "none"
            THEN /\ NameAsked \notin SeqRange(dex_list(dex))
                 /\ dex_list(dex') = Append(dex_list(dex), NameAsked)
            ELSE dex_list(dex') = dex_list(dex)]_vars
    /\ [](total_number_pools(dex) = Len(dex_list(dex)))

\* three pools are listed, the last added last
C13_Witness ==
    /\ ret.op = "add_pool" /\ ret.err = "none"
    /\ total_number_pools(dex) = 3
    /\ dex_list(dex)[3] = PoolName(ret.args[1], ret.args[2], ret.args[3])
    /\ dex_list(dex)[1] # dex_list(dex)[2]

\* the pools of the exchange, in insertion order
Pools(d) == [i \in 1..Len(filter_pools(d)) |-> filter_pools(d)[i].value]

\* C14: each pool's collector holds exactly the records of that pool's own
\* collect_data calls: a pool just added to the exchange has no record, and
\* a collect_data of the exchange gives every pool exactly one more record,
\* so every pool of the exchange has the same number of records
C14_RecordsPerPool ==
    [][/\ (ret'.op = "add_pool" /\ ret'.err = "none")
            => dataframe(Pools(dex')[Len(Pools(dex'))], collector') = <<>>
       /\ ret'.op = "dex.collect_data"
            => \A i \in 1..Len(Pools(dex)) :
                  Len(dataframe(Pools(dex')[i], collector'))
                      = Len(dataframe(Pools(dex)[i], collector)) + 1]_vars

\* an exchange of two pools after one collect_data
C14_Witness ==
    /\ ret.op = "dex.collect_data"
    /\ total_number_pools(dex) = 2
    /\ Len(dataframe(Pools(dex)[1], collector)) = 2

\* the last row of the data the pool holds
LastRow == dataframe(pool, collector)[Len(dataframe(pool, collector))]

\* the per-step volume accumulators of the pool's collector
Accumulators == <<pool.data.t0_current_volume, pool.data.t1_current_volume>>

\* C15: the accumulators start at zero; a successful swap_0_for_1 adds its
\* input to the token0 accumulator and its output to the token1 accumulator,
\* a successful swap_1_for_0 adds its output to token0 and its input to
\* token1, the input being the requested amount in wei; a failed swap
\* leaves them alone; collect_data appends one row
\* whose two volumes are the accumulators converted to human units, and
\* leaves both accumulators at zero.
C15_VolumePerStep ==
    /\ Accumulators = <<0, 0>>
    /\ [][/\ (ret'.op = "swap_0_for_1" /\ ret'.err = "none")
               => /\ ret'.out[1] = as_18(ret'.args[1])
                  /\ Accumulators' = <<Accumulators[1] + ret'.out[1],
                                       Accumulators[2] + ret'.out[2]>>
          /\ (ret'.op = "swap_1_for_0" /\ ret'.err = "none")
               => /\ ret'.out[1] = as_18(ret'.args[1])
                  /\ Accumulators' = <<Accumulators[1] + ret'.out[2],
                                       Accumulators[2] + ret'.out[1]>>
          /\ ret'.err # "none" => Accumulators' = Accumulators
          /\ ret'.op = "collect_data"
               => /\ Len(dataframe(pool', collector'))
                        = Len(dataframe(pool, collector)) + 1
                  /\ LastRow'.t0_vol = from_18(Accumulators[1])
                  /\ LastRow'.t1_vol = from_18(Accumulators[2])
                  /\ Accumulators' = <<0, 0>>]_vars

\* a second collect_data, after swaps that moved both tokens, and a first
\* collect_data that recorded other volumes
C15_Witness ==
    /\ ret.op = "collect_data"
    /\ Len(dataframe(pool, collector)) = 2
    /\ LastRow.t0_vol >= from_18(2) /\ LastRow.t1_vol > 0
    /\ dataframe(pool, collector)[1].t0_vol # LastRow.t0_vol
    /\ dataframe(pool, collector)[1].t0_vol > 0
    /\ Accumulators = <<0, 0>>

\* the rows the engine's pool holds
Rows == dataframe(pool, collector)

\* the agent whose turn is next in the running step
NextAgent == eng.agents[Head(eng.todo)]

\* C16: a step begins only when every earlier step has been collected, and
\* fixes an order that holds every agent exactly once; each turn is the turn
\* of the first agent left in that order and takes it off; collect_data is
\* called only when no agent is left, with the current step counter, and
\* adds the one row of that step; nothing else adds a row.  Hence between
\* steps the pool holds one row per completed step, with strictly
\* increasing step values.
C16_StepOrder ==
    /\ [][/\ ret'.op = "step"
               => /\ eng.phase = "idle" /\ Len(Rows) = eng.steps
                  /\ Len(eng'.todo) = Len(eng.agents)
                  /\ \A a \in 1..Len(eng.agents) :
                        Cardinality({k \in 1..Len(eng'.todo) : eng'.todo[k] = a}) = 1
          /\ ret'.op \notin {"step", "collect_data"}
               => /\ eng.phase = "turns" /\ eng.todo # <<>>
                  /\ ret'.args[Len(ret'.args)] = NextAgent.address
                  /\ ret'.err = "none" => eng'.todo = Tail(eng.todo)
                  /\ Rows' = Rows
          /\ ret'.op = "collect_data"
               => /\ eng.phase = "turns" /\ eng.todo = <<>>
                  /\ ret'.args[1] = eng.steps
                  /\ Len(Rows') = Len(Rows) + 1
                  /\ Rows'[Len(Rows')].steps = eng.steps
                  /\ eng'.phase = "idle" /\ eng'.i = eng.i + 1]_vars
    /\ [](/\ eng.phase = "idle" => Len(Rows) = eng.i
          /\ \A j, k \in 1..Len(Rows) : j < k => Rows[j].steps < Rows[k].steps)

\* two completed steps of a provider and a trader, the second with a swap
C16_Witness ==
    /\ eng.phase = "idle" /\ eng.i = 2
    /\ Len(eng.agents) = 2
    /\ Len(Rows) = 2 /\ Rows[1].steps < Rows[2].steps
    /\ Rows[2].t0_vol > 0 /\ Rows[1].t0_vol = 0

\* C18: a turn whose Pool operation raises ends the run: the agents left in
\* the order, the failing one included, stay where they were, no row is
\* added, and from then on nothing happens at all, so the step that failed
\* and every later step have no row.
C18_FailFast ==
    /\ [][/\ eng.phase # "aborted"
          /\ ret'.err # "none"
               => /\ eng'.phase = "aborted"
                  /\ eng'.todo = eng.todo /\ eng'.i = eng.i
                  /\ Rows' = Rows]_vars
    /\ [](eng.phase = "aborted"
            => /\ ret.err # "none"
               /\ eng.todo # <<>>
               /\ Len(Rows) = eng.steps - 1
               /\ \A k \in 1..Len(Rows) : Rows[k].steps < eng.steps)

\* the second step ended by the error of the first agent of its order, with
\* both agents left and only the first step's row collected
C18_Witness ==
    /\ eng.phase = "aborted"
    /\ eng.steps = 2 /\ eng.num_steps = 2
    /\ Len(eng.todo) = 2
    /\ Len(Rows) = 1

\* what the agents of a model were created as, and the positions opened
\* for them
Population(m) ==
    <<[k \in 1..Len(m.agents) |-> <<m.agents[k].kind, m.agents[k].address>>],
      [k \in 1..Len(m.st.evm_positions) |->
          <<m.st.evm_positions[k].owner, m.st.evm_positions[k].tick_lower,
            m.st.evm_positions[k].tick_upper>>]>>

\* the turn that is next has a choice
TurnPending == eng # NoEngine /\ eng.phase = "turns" /\ eng.todo # <<>>

C19_FailureLeavesLedger ==
    [][ret'.err # "none" => UNCHANGED <<evm_tokens, evm_pools, evm_positions>>]_vars

\* a construction that failed after it had deployed both tokens
C19_Witness ==
    /\ ret.op = "Pool" /\ ret.err = "ZeroDivisionError"
    /\ pool = NoPool
    /\ Cardinality(DOMAIN evm_tokens) = 2

\* the ticks of the positions, in the order they were opened
Ticks(positions) ==
    [id \in 1..Len(positions) |->
        <<positions[id].tick_lower, positions[id].tick_upper>>]

\* C21: a mint_position that succeeds opens one position, whose ticks are the
\* two bounds converted with the pool's spacing, the smaller one first: the
\* lower tick is not above the upper one and both are multiples of the
\* spacing; the two orders of a pair of bounds end the same way in every
\* state; no step changes the ticks of a position that exists.
C21_TicksOrderedSpaced ==
    /\ [][(ret'.op = "mint_position" /\ ret'.err = "none")
            => LET pos     == evm_positions'[Len(evm_positions')]
                   spacing == get_spacing_for_fee(pool.fee).val
                   t1      == price_to_tick_with_spacing(ret'.args[3], spacing)
                   t2      == price_to_tick_with_spacing(ret'.args[4], spacing)
               IN  /\ Len(evm_positions') = Len(evm_positions) + 1
                   /\ ret'.out[3] = Len(evm_positions')
                   /\ pos.tick_lower <= pos.tick_upper
                   /\ pos.tick_lower % spacing = 0 /\ pos.tick_upper % spacing = 0
                   /\ {pos.tick_lower, pos.tick_upper} = {t1, t2}]_vars
    /\ [][SubSeq(Ticks(evm_positions'), 1, Len(evm_positions)) = Ticks(evm_positions)]_vars
    /\ [](Constructed
            => \A pr \in PriceRanges, a0 \in PositionAmounts, a1 \in PositionAmounts :
                  mint_position(Current, a0, a1, pr[1], pr[2], "lp")
                    = mint_position(Current, a0, a1, pr[2], pr[1], "lp"))

\* a second position, opened from bounds given high price first, beside a
\* first one with the same ticks
C21_Witness ==
    /\ ret.op = "mint_position" /\ ret.err = "none"
    /\ ret.args[3] = "1.02" /\ ret.args[4] = "0.98"
    /\ Len(evm_positions) = 2
    /\ Ticks(evm_positions)[1] = Ticks(evm_positions)[2]
    /\ Ticks(evm_positions)[2][1] < 0 /\ Ticks(evm_positions)[2][2] > 0

\* a bound that converts, and to a tick outside the tick domain
OutOfDomain(price, fee) ==
    /\ ~PriceIsBelowWei(price)
    /\ ~is_tick_in_range(price_to_tick_with_spacing(price, get_spacing_for_fee(fee).val))

\* the call got as far as the ledger's mint: it succeeded, or the ledger
\* rejected the request
AskedLedger(r) == r.err \in {"none", "revert"}

\* C22: a mint_position with a bound that converts to a tick outside
\* [MIN_TICK, MAX_TICK] fails before anything is sent to the ledger: the
\* ledger's mint is not asked and no approval is made.
C22_TickDomainChecked ==
    [][(/\ ret'.op = "mint_position"
        /\ \/ OutOfDomain(ret'.args[3], pool.fee)
           \/ OutOfDomain(ret'.args[4], pool.fee))
          => /\ ~AskedLedger(ret')
             /\ UNCHANGED evm_tokens]_vars

\* a funded provider asked for a position up to a price beyond the last
\* tick: the ledger was asked and rejected it, the approvals stand
C22_Witness ==
    /\ ret.op = "mint_position" /\ ret.args[4] = "1e40"
    /\ ret.args[1] = Human(1) /\ ret.args[2] = Human(1)
    /\ ret.err = "revert"
    /\ evm_tokens[pool.token0].allowance["lp"][NftManager] = as_18(Human(1))

\* the providers of the running model
Providers == {k \in 1..Len(eng.agents) : eng.agents[k].kind = "LPAgent"}

\* C23: the turn of a provider calls nothing, increase_liquidity or
\* remove_liquidity.  It calls increase_liquidity with one amount drawn from
\* the position range for both tokens, and only when neither balance of the
\* provider is below it; it calls remove_liquidity only when its position
\* holds liquidity, with a drawn fraction above 0 and not above 1; both calls
\* name the provider's own account and the position it opened when it was
\* created, which stays the only position it has.
C23_ProviderCallsAllowed ==
    /\ [][(TurnPending /\ NextAgent.kind = "LPAgent")
            => LET bal == pair_balance(Current, NextAgent.address)
               IN  /\ ret'.op \in {"pass", "increase_liquidity", "remove_liquidity"}
                   /\ ret'.op = "increase_liquidity"
                        => /\ ret'.args[1] = NextAgent.tokenid
                           /\ ret'.args[2] \in POSITION_RANGE
                           /\ ret'.args[3] = ret'.args[2]
                           /\ ret'.args[4] = NextAgent.address
                           /\ ret'.args[2] <= bal[1] /\ ret'.args[3] <= bal[2]
                   /\ ret'.op = "remove_liquidity"
                        => /\ ret'.args[1] = NextAgent.tokenid
                           /\ ret'.args[3] = NextAgent.address
                           /\ get_position(Current, NextAgent.tokenid)[4] # 0
                           /\ ret'.args[2] \in RemovePercentages
                           /\ ret'.args[2] > 0 /\ ret'.args[2] <= Human(1)
                   /\ eng'.agents = eng.agents]_vars
    /\ [](eng # NoEngine
            => /\ Len(evm_positions) = Cardinality(Providers)
               /\ \A k \in Providers :
                     /\ HasPosition(Current, eng.agents[k].tokenid)
                     /\ evm_positions[eng.agents[k].tokenid].owner
                          = eng.agents[k].address)

\* in the second step a provider takes liquidity out of the position it
\* added to in the first
C23_Witness ==
    /\ eng # NoEngine /\ eng.steps = 2
    /\ ret.op = "remove_liquidity" /\ ret.err = "none"
    /\ ret.seen.bal0 < as_18(INITIAL_TOKEN_BALANCE) - as_18(INITIAL_POSITION_AMOUNT)
    /\ ret.args[1] = 1 /\ evm_positions[1].owner = "lp"

\* the trader's balance of the token a swap takes in
InputBalance(op, address) ==
    IF op = "swap_0_for_1" THEN pair_balance(Current, address)[1]
    ELSE pair_balance(Current, address)[2]

\* C24: the turn of a trader is at most one call, a swap of a drawn amount
\* in a drawn direction; the amount is never above the trader's balance of
\* the token it pays with, so the swap never fails for want of balance and
\* never ends the run.
C24_TraderSwapsCovered ==
    [][(TurnPending /\ NextAgent.kind = "ZIAgent")
         => /\ ret'.op \in {"pass", "swap_0_for_1", "swap_1_for_0"}
            /\ ret'.op # "pass"
                 => /\ ret'.args[1] \in RAND_RANGE
                    /\ ret'.args[2] = NextAgent.address
                    /\ ret'.args[1] <= InputBalance(ret'.op, NextAgent.address)
                    /\ ret'.err # "insufficient balance!"
                    /\ eng'.phase # "aborted"]_vars

\* a trader that had paid token1 away before drew another swap of token1:
\* the swap failed on the balance check and the run ended in its second step
C24_Witness ==
    /\ eng # NoEngine /\ eng.phase = "aborted" /\ eng.steps = 2
    /\ ret.op = "swap_1_for_0" /\ ret.args[2] = "bob"
    /\ ret.err = "insufficient balance!"
    /\ from_18(ret.seen.bal1) < ret.args[1]
    /\ Len(Rows) = 1

\* the run is long enough for the whale's activation steps
LongEnough == eng.num_steps >= activation_range[Len(activation_range)]

\* C20: in a run long enough for its activation steps a whale can be
\* created; at each activation step its turn is one swap_0_for_1 of the
\* whale amount, which completes, and at every other step its turn calls
\* nothing.
C20_WhaleSwaps ==
    [][/\ (ret'.op = "WhaleAgent" /\ LongEnough)
            => /\ ret'.err = "none"
               /\ eng'.agents[Len(eng'.agents)].kind = "WhaleAgent"
       /\ (TurnPending /\ NextAgent.kind = "WhaleAgent" /\ LongEnough)
            => IF eng.steps \in SeqRange(activation_range)
               THEN /\ ret'.op = "swap_0_for_1" /\ ret'.err = "none"
                    /\ ret'.args = <<whale_amount, NextAgent.address>>
               ELSE ret'.op = "pass"]_vars

\* a whale's constructor has raised in a run of enough steps
C20_Witness ==
    /\ ret.op = "WhaleAgent" /\ ret.err = "AttributeError"
    /\ LongEnough
    /\ Len(eng.agents) = 2

=============================================================================
